---- MODULE Spec2Model ----
(***************************************************************************)
(* A model of src/app.py, the Streamlit policy-management application:     *)
(* the SQLite tables, the per-session script runs (login, the add-policy   *)
(* flow with its two external AI calls, the management, import and admin   *)
(* handlers), the daily usage counters, and the pure helpers               *)
(* classify_item_category and normalize_int.                               *)
(*                                                                         *)
(* A Python str is a sequence of one-character strings.  A character       *)
(* outside ASCII is written by its code point, "U+58FD" for the character  *)
(* 壽; the comments show the original text.  Python's None is the value    *)
(* None below.                                                             *)
(***************************************************************************)
EXTENDS Integers, Sequences, FiniteSets, TLC

VARIABLES
    \* the call of a pure helper: its argument and its result
    arg, ret,
    \* st.session_state of each browser session
    authed, username, role,
    \* each session's script run: its position, its local variables, and
    \* the message it left on the page
    pc, loc, msg,
    \* the wall clock's calendar day, as get_ymd() reads it
    today,
    \* the SQLite tables and the AUTOINCREMENT counters (sqlite_sequence)
    users, usage_daily, customers, policies, policy_items, seq,
    \* the deployment's settings, read from the environment at start-up
    env

pureVars == <<arg, ret>>
sessVars == <<authed, username, role>>
dataVars == <<customers, policies, policy_items, seq>>
vars == <<arg, ret, authed, username, role, pc, loc, msg,
          today, users, usage_daily, customers, policies, policy_items, seq,
          env>>

----------------------------------------------------------------------------
(* Python values and str methods                                           *)

None == <<"None">>
\* a JSON value that is neither null nor a string (a number, a list): it is
\* truthy and has no .strip()
NonStr == <<"NonStr">>
\* the result of an expression that raised an exception
Raised == [kind |-> "raised"]
IsRaised(r) == r.kind = "raised"

Min(S) == CHOOSE x \in S : \A y \in S : x <= y
Max(S) == CHOOSE x \in S : \A y \in S : x >= y

\* the characters str.strip() removes: space, tab, U+3000 (ideographic space)
Whitespace == {" ", "\t", "U+3000"}

\* s.strip()
Strip(s) ==
    LET keep == {i \in 1..Len(s) : s[i] \notin Whitespace}
    IN  IF keep = {} THEN <<>> ELSE SubSeq(s, Min(keep), Max(keep))

\* s.replace(c, "") for a one-character c
Remove(s, c) == SelectSeq(s, LAMBDA ch : ch # c)

\* k in t
IsSubstr(k, t) ==
    \E i \in 0..(Len(t) - Len(k)) : SubSeq(t, i + 1, i + Len(k)) = k

\* any(k in t for k in kws)
AnyIn(kws, t) == \E j \in 1..Len(kws) : IsSubstr(kws[j], t)

\* the elements of a list
Elems(q) == {q[j] : j \in 1..Len(q)}

\* (v or ""): None and the empty string are falsy
OrEmpty(v) == IF v = None THEN <<>> ELSE v

----------------------------------------------------------------------------
(* classify_item_category                                                  *)

KwLife ==
    << <<"U+58FD", "U+96AA">>,                                    \* 壽險
       <<"U+5B9A", "U+671F", "U+58FD", "U+96AA">>,                \* 定期壽險
       <<"U+7D42", "U+8EAB", "U+58FD", "U+96AA">>,                \* 終身壽險
       <<"U+91CD", "U+5927", "U+50B7", "U+75C5",
         "U+5B9A", "U+671F", "U+4FDD", "U+96AA">>,                \* 重大傷病定期保險
       <<"U+58FD">> >>                                            \* 壽
KwMedical ==
    << <<"U+4F4F", "U+9662">>,                                    \* 住院
       <<"U+5BE6", "U+652F">>,                                    \* 實支
       <<"U+91AB", "U+7642">>,                                    \* 醫療
       <<"U+624B", "U+8853">>,                                    \* 手術
       <<"U+7642", "U+7A0B">>,                                    \* 療程
       <<"U+5065", "U+5EB7", "U+4FDD", "U+96AA">>,                \* 健康保險
       <<"U+91AB", "U+5361">>,                                    \* 醫卡
       <<"U+65E5", "U+984D">> >>                                  \* 日額
KwAccident ==
    << <<"U+50B7", "U+5BB3">>,                                    \* 傷害
       <<"U+610F", "U+5916">>,                                    \* 意外
       <<"U+9AA8", "U+6298">>,                                    \* 骨折
       <<"U+5931", "U+80FD">>,                                    \* 失能
       <<"U+707D", "U+5BB3">> >>                                  \* 災害
KwCancer ==
    << <<"U+764C">>,                                              \* 癌
       <<"U+9632", "U+764C">>,                                    \* 防癌
       <<"U+60E1", "U+6027", "U+816B", "U+7624">> >>              \* 惡性腫瘤
KwCritical ==
    << <<"U+91CD", "U+5927", "U+50B7", "U+75C5">>,                \* 重大傷病
       <<"U+91CD", "U+50B7">>,                                    \* 重傷
       <<"U+91CD", "U+5927", "U+75BE", "U+75C5">> >>              \* 重大疾病
KwLongTermCare ==
    << <<"U+9577", "U+7167">>,                                    \* 長照
       <<"U+7167", "U+8B77">>,                                    \* 照護
       <<"U+5931", "U+80FD", "U+6276", "U+52A9">>,                \* 失能扶助
       <<"U+5931", "U+80FD", "U+7167", "U+8B77">> >>              \* 失能照護
KwWaiver ==
    << <<"U+8C41", "U+514D">>,                                    \* 豁免
       <<"U+514D", "U+7E73">> >>                                  \* 免繳

\* the eight category labels, as the code returns them
LblLife         == <<"U+58FD", "U+96AA">>     \* 壽險  (life)
LblMedical      == <<"U+91AB", "U+7642">>     \* 醫療  (medical)
LblAccident     == <<"U+610F", "U+5916">>     \* 意外  (accident)
LblCancer       == <<"U+764C", "U+75C7">>     \* 癌症  (cancer)
LblCritical     == <<"U+91CD", "U+50B7">>     \* 重傷  (critical illness)
LblLongTermCare == <<"U+9577", "U+7167">>     \* 長照  (long-term care)
LblWaiver       == <<"U+8C41", "U+514D">>     \* 豁免  (premium waiver)
LblOther        == <<"U+5176", "U+4ED6">>     \* 其他  (other)

\* a plausible slip: the accident test placed before the medical test
classify_item_category_swapped(name) ==
    LET t == Strip(OrEmpty(name))
    IN  IF t = <<>> THEN LblOther
        ELSE IF AnyIn(KwLife, t) THEN LblLife
        ELSE IF AnyIn(KwAccident, t) THEN LblAccident
        ELSE IF AnyIn(KwMedical, t) THEN LblMedical
        ELSE IF AnyIn(KwCancer, t) THEN LblCancer
        ELSE IF AnyIn(KwCritical, t) THEN LblCritical
        ELSE IF AnyIn(KwLongTermCare, t) THEN LblLongTermCare
        ELSE IF AnyIn(KwWaiver, t) THEN LblWaiver
        ELSE LblOther

\* a plausible slip: the empty name returned as its own category
classify_item_category_blank(name) ==
    LET t == Strip(OrEmpty(name))
    IN  IF t = <<>> THEN t ELSE classify_item_category_swapped(t)

classify_item_category(name) ==
    LET t == Strip(OrEmpty(name))
    IN  IF t = <<>> THEN LblOther
        ELSE IF AnyIn(KwLife, t) THEN LblLife
        ELSE IF AnyIn(KwMedical, t) THEN LblMedical
        ELSE IF AnyIn(KwAccident, t) THEN LblAccident
        ELSE IF AnyIn(KwCancer, t) THEN LblCancer
        ELSE IF AnyIn(KwCritical, t) THEN LblCritical
        ELSE IF AnyIn(KwLongTermCare, t) THEN LblLongTermCare
        ELSE IF AnyIn(KwWaiver, t) THEN LblWaiver
        ELSE LblOther

----------------------------------------------------------------------------
(* normalize_int                                                           *)
(*                                                                         *)
(* A Python int has no fixed width, so an integer is held as a sign and    *)
(* its decimal digits (most significant first, no leading zero; zero is    *)
(* the empty sequence): [kind |-> "int", neg |-> FALSE, mag |-> <<"1","2">>]*)
(* is 12.                                                                  *)

DigitChars == <<"0", "1", "2", "3", "4", "5", "6", "7", "8", "9">>
IsDigit(c) == \E i \in 1..10 : DigitChars[i] = c
DigitVal(c) == (CHOOSE i \in 1..10 : DigitChars[i] = c) - 1

UpperChars == <<"A","B","C","D","E","F","G","H","I","J","K","L","M",
                "N","O","P","Q","R","S","T","U","V","W","X","Y","Z">>
LowerChars == <<"a","b","c","d","e","f","g","h","i","j","k","l","m",
                "n","o","p","q","r","s","t","u","v","w","x","y","z">>
\* s.lower()
Lower(s) ==
    [i \in 1..Len(s) |->
        IF \E j \in 1..26 : UpperChars[j] = s[i]
        THEN LowerChars[CHOOSE j \in 1..26 : UpperChars[j] = s[i]]
        ELSE s[i]]

PyInt(neg, mag) == [kind |-> "int", neg |-> neg, mag |-> mag]
PyZero == PyInt(FALSE, <<>>)

\* digits without their leading zeros
RECURSIVE Canon(_)
Canon(d) == IF d # <<>> /\ Head(d) = "0" THEN Canon(Tail(d)) ELSE d

\* a <= b, for two canonical digit sequences
RECURSIVE LexLeq(_, _)
LexLeq(a, b) ==
    IF a = <<>> THEN TRUE
    ELSE IF DigitVal(Head(a)) # DigitVal(Head(b))
         THEN DigitVal(Head(a)) < DigitVal(Head(b))
         ELSE LexLeq(Tail(a), Tail(b))
MagLeq(a, b) == Len(a) < Len(b) \/ (Len(a) = Len(b) /\ LexLeq(a, b))

\* d + 1
RECURSIVE MagInc(_)
MagInc(d) ==
    IF d = <<>> THEN <<"1">>
    ELSE LET n == Len(d)
         IN  IF d[n] = "9"
             THEN Append(MagInc(SubSeq(d, 1, n - 1)), "0")
             ELSE Append(SubSeq(d, 1, n - 1), DigitChars[DigitVal(d[n]) + 2])
\* d - 1, for a d whose last digit is not 0
MagDecOdd(d) ==
    Canon(Append(SubSeq(d, 1, Len(d) - 1), DigitChars[DigitVal(d[Len(d)])]))

IsOddMag(d) == d # <<>> /\ DigitVal(d[Len(d)]) % 2 = 1
\* d mod 4, from its last two digits
MagMod4(d) ==
    IF d = <<>> THEN 0
    ELSE IF Len(d) = 1 THEN DigitVal(d[1]) % 4
    ELSE (10 * DigitVal(d[Len(d) - 1]) + DigitVal(d[Len(d)])) % 4

\* 2^53 and 2^54: up to 2^53 every integer is a double; from 2^53 to 2^54
\* the doubles are the even integers
Two53 == <<"9","0","0","7","1","9","9","2","5","4","7","4","0","9","9","2">>
Two54 == <<"1","8","0","1","4","3","9","8","5","0","9","4","8","1","9","8","4">>

\* int(float(.)) of the non-negative decimal with integer digits ip and a
\* fraction that is zero or not: the nearest double (ties to the even
\* mantissa), truncated.  Exact for integers below 2^54 and for decimals of
\* at most 15 significant digits, which is what the model draws: above
\* 2^54 the doubles lie 4 and more apart, and a longer fraction may round
\* up to the next integer; neither is followed here.
DoubleTrunc(ip, fracNonZero) ==
    LET v == Canon(ip)
    IN  IF MagLeq(v, Two53) THEN v
        ELSE IF ~IsOddMag(v) THEN v
        ELSE IF fracNonZero THEN MagInc(v)
        ELSE IF MagMod4(MagDecOdd(v)) = 0 THEN MagDecOdd(v) ELSE MagInc(v)

\* a digitpart of Python's float grammar: digits, single underscores between
IsDigitPart(d) ==
    /\ d # <<>>
    /\ IsDigit(d[1]) /\ IsDigit(d[Len(d)])
    /\ \A i \in 1..Len(d) : IsDigit(d[i]) \/ d[i] = "_"
    /\ \A i \in 1..(Len(d) - 1) : ~(d[i] = "_" /\ d[i + 1] = "_")

\* the value of a short digit sequence as a number (exponents only)
RECURSIVE SmallVal(_)
SmallVal(d) ==
    IF d = <<>> THEN 0
    ELSE 10 * SmallVal(SubSeq(d, 1, Len(d) - 1)) + DigitVal(d[Len(d)])

Zeros(n) == [i \in 1..n |-> "0"]

\* float(x): Raised (ValueError), or the parsed literal
\*   [kind |-> "nan" | "inf" | "num", neg, ip, fp, ex]
\* where the value of a "num" is ip.fp * 10^ex
ParseFloat(x) ==
    LET s    == Strip(x)
        sgn  == s # <<>> /\ s[1] \in {"+", "-"}
        neg  == sgn /\ s[1] = "-"
        body == IF sgn THEN Tail(s) ELSE s
        low  == Lower(body)
        es   == {i \in 1..Len(low) : low[i] = "e"}
        mant == IF es = {} THEN low ELSE SubSeq(low, 1, Min(es) - 1)
        expo == IF es = {} THEN <<>> ELSE SubSeq(low, Min(es) + 1, Len(low))
        esgn == expo # <<>> /\ expo[1] \in {"+", "-"}
        edig == IF esgn THEN Tail(expo) ELSE expo
        dots == {i \in 1..Len(mant) : mant[i] = "."}
        ipt  == IF dots = {} THEN mant ELSE SubSeq(mant, 1, Min(dots) - 1)
        fpt  == IF dots = {} THEN <<>> ELSE SubSeq(mant, Min(dots) + 1, Len(mant))
        okMant == /\ Cardinality(dots) <= 1
                  /\ ipt = <<>> \/ IsDigitPart(ipt)
                  /\ fpt = <<>> \/ IsDigitPart(fpt)
                  /\ ~(ipt = <<>> /\ fpt = <<>>)
        okExp  == es = {} \/ (Cardinality(es) = 1 /\ IsDigitPart(edig))
        exAbs  == SmallVal(Remove(edig, "_"))
    IN  IF low = <<"n", "a", "n">> THEN [kind |-> "nan", neg |-> neg]
        ELSE IF low = <<"i", "n", "f">>
                \/ low = <<"i", "n", "f", "i", "n", "i", "t", "y">>
             THEN [kind |-> "inf", neg |-> neg]
        ELSE IF ~(okMant /\ okExp) THEN Raised
        ELSE [kind |-> "num", neg |-> neg,
              ip |-> Remove(ipt, "_"), fp |-> Remove(fpt, "_"),
              ex |-> IF esgn /\ expo[1] = "-" THEN 0 - exAbs ELSE exAbs]

\* int(f) of a parsed float: Raised for nan (ValueError) and inf
\* (OverflowError), else the truncated value.  A value of more than 309
\* integer digits is beyond the largest double, so float() gave inf.
IntOfFloat(f) ==
    IF IsRaised(f) THEN Raised
    ELSE IF f.kind # "num" THEN Raised
    ELSE LET all   == f.ip \o f.fp
             lead  == Len(all) - Len(Canon(all))
             point == Len(f.ip) + f.ex
         IN  IF Canon(all) = <<>> THEN PyZero
             ELSE IF point - lead > 309 THEN Raised
             ELSE LET ipart == IF point <= 0 THEN <<>>
                               ELSE IF point >= Len(all)
                                    THEN all \o Zeros(point - Len(all))
                                    ELSE SubSeq(all, 1, point)
                      frac  == IF point <= 0 THEN all
                               ELSE IF point >= Len(all) THEN <<>>
                                    ELSE SubSeq(all, point + 1, Len(all))
                      mag   == DoubleTrunc(ipart, Canon(frac) # <<>>)
                  IN  IF mag = <<>> THEN PyZero
                      ELSE PyInt(f.neg, mag)

\* the body of normalize_int's try block; s is None or a str
normalize_int_try(s) ==
    IF s = None THEN PyZero
    ELSE LET x0 == Strip(s)
             x  == Remove(Remove(Remove(Remove(Remove(x0,
                       ","), "U+FF0C"), "$"), "U+5143"), " ")
         IN  IF x = <<>> \/ Lower(x) = <<"n", "a", "n">> THEN PyZero
             ELSE IntOfFloat(ParseFloat(x))

\* normalize_int: the bare except turns every exception into 0
normalize_int(s) ==
    LET r == normalize_int_try(s)
    IN  IF IsRaised(r) THEN PyZero ELSE r

\* the number an integer of few digits stands for
IntOf(p) == IF p.neg THEN 0 - SmallVal(p.mag) ELSE SmallVal(p.mag)

----------------------------------------------------------------------------
(* Configuration and bounds                                                *)

Sessions == {"s1", "s2"}

\* the last calendar day the clock reaches
MaxDay == 2
Days == 1..MaxDay

\* The two daily ceilings are deployment settings read from the environment
\* (defaults 30 and 80); the model runs them at small values.
DAILY_IMAGE_LIMIT_PER_USER == 2
DAILY_TEXT_LIMIT_PER_USER == 2

ADMIN_PASSWORD == env.ADMIN_PASSWORD
\* load_user_passwords(): the list in USER_PASSWORDS_JSON
load_user_passwords == env.USER_PASSWORDS
\* a deployment with an admin secret and one shared user password
DeployedEnv == [ADMIN_PASSWORD |-> "admin-secret",
                USER_PASSWORDS |-> {"shared-pw"}]

\* rows ever inserted into each table (the AUTOINCREMENT counters stop here)
MaxCustomers == 2
MaxPolicies == 2
MaxItems == 4

----------------------------------------------------------------------------
(* usage_daily                                                             *)

UsageRow(tbl, ymd, name) == {r \in tbl : r.ymd = ymd /\ r.username = name}

\* usage_get_or_create: the dict it returns ...
usage_read(tbl, ymd, name) ==
    IF UsageRow(tbl, ymd, name) = {}
    THEN [image_calls |-> 0, text_calls |-> 0]
    ELSE LET r == CHOOSE r \in UsageRow(tbl, ymd, name) : TRUE
         IN  [image_calls |-> r.image_calls, text_calls |-> r.text_calls]
\* ... and the table it leaves (INSERT OR IGNORE of a zero row when absent)
usage_get_or_create(tbl, ymd, name) ==
    IF UsageRow(tbl, ymd, name) = {}
    THEN tbl \cup {[ymd |-> ymd, username |-> name,
                    image_calls |-> 0, text_calls |-> 0]}
    ELSE tbl

\* a plausible slip: the counter is set to the increment instead of raised
usage_inc_overwrite(tbl, ymd, name, image_inc, text_inc) ==
    (tbl \ UsageRow(tbl, ymd, name))
        \cup {[ymd |-> ymd, username |-> name,
               image_calls |-> image_inc, text_calls |-> text_inc]}

\* usage_inc: INSERT ... VALUES(ymd, username, 0, 0, now)
\*            ON CONFLICT(ymd, username) DO UPDATE SET
\*              image_calls = image_calls + image_inc, text_calls = ...
\* The values inserted when the row is absent are the two zeros.
usage_inc(tbl, ymd, name, image_inc, text_inc) ==
    IF UsageRow(tbl, ymd, name) = {}
    THEN tbl \cup {[ymd |-> ymd, username |-> name,
                    image_calls |-> 0, text_calls |-> 0]}
    ELSE {IF r.ymd = ymd /\ r.username = name
          THEN [r EXCEPT !.image_calls = @ + image_inc,
                         !.text_calls = @ + text_inc]
          ELSE r : r \in tbl}

\* DELETE FROM usage_daily WHERE ymd=?
usage_delete_day(tbl, ymd) == {r \in tbl : r.ymd # ymd}

----------------------------------------------------------------------------
(* customers, policies, policy_items                                       *)
(*                                                                         *)
(* A row is a record of the columns the program reads or decides on; the   *)
(* timestamps and the columns that are only copied through (insurer,       *)
(* pay_mode, the dates, raw_json, contract_type, term, ...) are left out.  *)

Ids(tbl) == {r.id : r \in tbl}

\* upsert_customer, the SELECT and fetchone(): the id of the matching row,
\* 0 when none matches.  The table has no index on name, so the scan is in
\* rowid order and the first row fetched is the one with the least id.
upsert_select(tbl, name, id_no) ==
    LET m == IF id_no # <<>>
             THEN {r \in tbl : r.name = name /\ r.id_no = id_no}
             ELSE {r \in tbl : r.name = name}
    IN  IF m = {} THEN 0 ELSE Min(Ids(m))

\* a plausible slip: the row is inserted whether or not one was found
upsert_write_always_insert(tbl, last, found, c) ==
    tbl \cup {[id |-> last + 1, name |-> c.name, id_no |-> c.id_no,
               birthday |-> c.birthday, phone |-> c.phone, email |-> c.email,
               address |-> c.address, notes |-> c.notes]}

\* upsert_customer, the UPDATE (a row was found) or the INSERT (none was);
\* last is the table's AUTOINCREMENT counter
upsert_write(tbl, last, found, c) ==
    IF found # 0
    THEN {IF r.id = found
          THEN [r EXCEPT !.birthday = c.birthday, !.phone = c.phone,
                         !.email = c.email, !.address = c.address,
                         !.notes = c.notes]
          ELSE r : r \in tbl}
    ELSE tbl \cup {[id |-> last + 1, name |-> c.name, id_no |-> c.id_no,
                    birthday |-> c.birthday, phone |-> c.phone,
                    email |-> c.email, address |-> c.address,
                    notes |-> c.notes]}

\* the id upsert_customer returns, and the counter it leaves
upsert_cid(last, found) == IF found # 0 THEN found ELSE last + 1
upsert_last(last, found) == IF found # 0 THEN last ELSE last + 1

\* upsert_customer run from its SELECT to its commit with no other writer
\* in between: the table, the counter and the id returned
upsert_customer(tbl, last, c) ==
    LET found == upsert_select(tbl, c.name, c.id_no)
    IN  [tbl  |-> upsert_write(tbl, last, found, c),
         last |-> upsert_last(last, found),
         cid  |-> upsert_cid(last, found)]

\* a plausible slip: the children of a deleted row are left behind
cascade_none(children, key, deleted) == children

\* ON DELETE CASCADE (PRAGMA foreign_keys=ON): the child rows whose parent
\* was deleted go with it; key is "customer_id" or "policy_id"
cascade(children, key, deleted) ==
    {r \in children : r[key] \notin deleted}

\* insert_policy_items, the loop: the rows it inserts for the items of one
\* group, or Raised when (it.get("product_name") or "").strip() raises.
\* The premium column holds the integer normalize_int returns.
item_raises(it) == it.product_name = NonStr
item_row(id, policy_id, it) ==
    LET product_name == Strip(OrEmpty(it.product_name))
    IN  [id |-> id, policy_id |-> policy_id,
         product_name |-> product_name,
         premium |-> IntOf(normalize_int(it.premium)),
         category |-> classify_item_category(product_name)]
item_rows(last, policy_id, items) ==
    {item_row(last + k, policy_id, items[k]) : k \in 1..Len(items)}

----------------------------------------------------------------------------
(* Export and import of the customer table                                 *)
(*                                                                         *)
(* customers.to_csv(index=False) writes a text per cell, and pd.read_csv   *)
(* reads the file back with a type per column.  A cell read back is        *)
(*   [kind |-> "nan"]                 a missing value (NaN)                *)
(*   [kind |-> "int", neg, mag]       a cell of an int64 column            *)
(*   [kind |-> "float", neg, mag]     a whole number in a float64 column   *)
(*   [kind |-> "str", s |-> text]     a cell of an object column           *)
(* The texts drawn hold no decimal point or exponent and stay below 2^53.  *)

CustomerFields ==
    <<"name", "id_no", "birthday", "phone", "email", "address", "notes">>

\* the rows of a table in rowid order (SELECT * FROM customers)
RECURSIVE RowsById(_)
RowsById(tbl) ==
    IF tbl = {} THEN <<>>
    ELSE LET r == CHOOSE x \in tbl : x.id = Min(Ids(tbl))
         IN  <<r>> \o RowsById(tbl \ {r})

\* the texts read_csv takes for a missing value (its default na_values,
\* those made of letters), besides the empty field
NaTexts ==
    { <<"n","a","n">>, <<"N","a","N">>, <<"N","A">>, <<"N","U","L","L">>,
      <<"n","u","l","l">>, <<"N","o","n","e">> }
csv_na(v) == v = <<>> \/ v \in NaTexts
\* a text read_csv parses as an integer
csv_int(v) ==
    LET d == IF v # <<>> /\ v[1] \in {"+", "-"} THEN Tail(v) ELSE v
    IN  d # <<>> /\ \A i \in 1..Len(d) : IsDigit(d[i])
csv_int_cell(kind, v) ==
    LET neg == v[1] = "-"
        d   == IF v[1] \in {"+", "-"} THEN Tail(v) ELSE v
    IN  [kind |-> kind, neg |-> neg /\ Canon(d) # <<>>, mag |-> Canon(d)]

\* read_csv(to_csv(.)) of one column, col a sequence of texts
read_csv_column(col) ==
    LET n     == Len(col)
        given == {i \in 1..n : ~csv_na(col[i])}
        ints  == given # {} /\ \A i \in given : csv_int(col[i])
    IN  [i \in 1..n |->
            IF i \notin given THEN [kind |-> "nan"]
            ELSE IF ints
                 THEN csv_int_cell(IF given = 1..n THEN "int" ELSE "float",
                                   col[i])
                 ELSE [kind |-> "str", s |-> col[i]]]

\* pd.read_csv(customers.to_csv(index=False)): the columns import reads
read_csv_of(tbl) ==
    LET rows == RowsById(tbl)
        col(f) == read_csv_column([i \in 1..Len(rows) |-> rows[i][f]])
    IN  [i \in 1..Len(rows) |->
            [f \in Elems(CustomerFields) |-> col(f)[i]]]

\* str(cell)
py_str(cell) ==
    LET digits == IF cell.mag = <<>> THEN <<"0">> ELSE cell.mag
        signed == IF cell.neg THEN <<"-">> \o digits ELSE digits
    IN  CASE cell.kind = "nan" -> <<"n", "a", "n">>
          [] cell.kind = "str" -> cell.s
          [] cell.kind = "int" -> signed
          [] cell.kind = "float" -> signed \o <<".", "0">>

\* import_customers_df, one row of the loop: the row is skipped when its
\* name is empty or "nan", else upserted; [tbl, last, count]
import_row_of(acc, r) ==
    LET name == Strip(py_str(r.name))
        up   == upsert_customer(acc.tbl, acc.last,
                    [name |-> name,
                     id_no |-> Strip(py_str(r.id_no)),
                     birthday |-> Strip(py_str(r.birthday)),
                     phone |-> Strip(py_str(r.phone)),
                     email |-> Strip(py_str(r.email)),
                     address |-> Strip(py_str(r.address)),
                     notes |-> Strip(py_str(r.notes))])
    IN  IF name = <<>> \/ Lower(name) = <<"n", "a", "n">> THEN acc
        ELSE [tbl |-> up.tbl, last |-> up.last, count |-> acc.count + 1]

\* import_customers_df(df, mapping) with every system field mapped to the
\* column of its name
RECURSIVE import_rows(_, _)
import_rows(acc, df) ==
    IF df = <<>> THEN acc
    ELSE import_rows(import_row_of(acc, Head(df)), Tail(df))
import_customers_df(tbl, last, df) ==
    import_rows([tbl |-> tbl, last |-> last, count |-> 0], df)

----------------------------------------------------------------------------
(* The state after start-up: init_db() has created the empty tables and    *)
(* no session has logged in.                                               *)

\* the locals of a script run that has not set them
NoDoc == [kind |-> "none"]
NoForm == [customer_name |-> <<>>, customer_idno |-> <<>>,
           customer_phone |-> <<>>, customer_address |-> <<>>,
           customer_notes |-> <<>>, do_health |-> FALSE]
NoLoc == [u |-> [image_calls |-> 0, text_calls |-> 0],
          struct |-> NoDoc, form |-> NoForm,
          final_name |-> <<>>, found |-> 0, cid |-> 0,
          report_md |-> <<>>, gi |-> 0, pid |-> 0, rows |-> <<>>]

InitApp ==
    /\ authed = [s \in Sessions |-> FALSE]
    /\ username = [s \in Sessions |-> <<>>]
    /\ role = [s \in Sessions |-> "none"]
    /\ pc = [s \in Sessions |-> "idle"]
    /\ loc = [s \in Sessions |-> NoLoc]
    /\ msg = [s \in Sessions |-> "none"]
    /\ today = 1
    /\ users = {}
    /\ usage_daily = {}
    /\ customers = {}
    /\ policies = {}
    /\ policy_items = {}
    /\ seq = [customers |-> 0, policies |-> 0, policy_items |-> 0]

Init ==
    /\ arg = None
    /\ ret = None
    /\ env = DeployedEnv
    /\ InitApp

----------------------------------------------------------------------------
(* Steps every script run shares                                           *)

\* the sidebar, run at the top of every script run of a logged-in session:
\* usage_get_or_create(USERNAME)
sidebar(tbl, s) == usage_get_or_create(tbl, today, username[s])

\* a script run ends (st.stop(), an uncaught exception, or the end of the
\* script): the page shows m and the locals are gone
EndRun(s, m) ==
    /\ pc' = [pc EXCEPT ![s] = "idle"]
    /\ loc' = [loc EXCEPT ![s] = NoLoc]
    /\ msg' = [msg EXCEPT ![s] = m]

\* the script run of session s is cut short between two of its steps: the
\* server process stops, or the browser asks for a rerun while the script
\* is still running.  What the run committed stays.
abort(s) ==
    /\ pc[s] # "idle"
    /\ EndRun(s, "none")
    /\ UNCHANGED <<env, pureVars, sessVars, today, users, usage_daily, dataVars>>

\* a handler of one step: the control of a logged-in session with no run
\* under way
Ready(s) == authed[s] /\ pc[s] = "idle"

\* the wall clock passes midnight
Tick ==
    /\ today < MaxDay
    /\ today' = today + 1
    /\ UNCHANGED <<env, pureVars, sessVars, pc, loc, msg, users, usage_daily,
                   dataVars>>

----------------------------------------------------------------------------
(* login_ui, require_auth, logout                                          *)

\* a plausible slip: the admin branch without its "ADMIN_PASSWORD and", so
\* that an empty password passes when no admin secret is configured
login_ui_empty_secret(s, name, password) ==
    /\ ~authed[s]
    /\ pc[s] = "idle"
    /\ IF Strip(name) = <<>>
       THEN /\ msg' = [msg EXCEPT ![s] = "need_username"]
            /\ UNCHANGED <<sessVars, users, usage_daily>>
       ELSE IF password = ADMIN_PASSWORD
               \/ (load_user_passwords # {} /\ password \in load_user_passwords)
       THEN LET r == IF password = ADMIN_PASSWORD THEN "admin" ELSE "user"
                n == Strip(name)
            IN  /\ authed' = [authed EXCEPT ![s] = TRUE]
                /\ username' = [username EXCEPT ![s] = n]
                /\ role' = [role EXCEPT ![s] = r]
                /\ users' = {x \in users : x.username # n}
                                \cup {[username |-> n, role |-> r]}
                /\ usage_daily' = usage_get_or_create(usage_daily, today, n)
                /\ msg' = [msg EXCEPT ![s] = "none"]
       ELSE /\ msg' = [msg EXCEPT ![s] = "bad_password"]
            /\ UNCHANGED <<sessVars, users, usage_daily>>
    /\ UNCHANGED <<env, pureVars, pc, loc, today, dataVars>>

login_ui(s, name, password) ==
    /\ ~authed[s]
    /\ pc[s] = "idle"
    /\ IF Strip(name) = <<>>
       THEN /\ msg' = [msg EXCEPT ![s] = "need_username"]
            /\ UNCHANGED <<sessVars, users, usage_daily>>
       ELSE IF (ADMIN_PASSWORD # "" /\ password = ADMIN_PASSWORD)
               \/ (load_user_passwords # {} /\ password \in load_user_passwords)
       THEN LET is_admin == ADMIN_PASSWORD # "" /\ password = ADMIN_PASSWORD
                r == IF is_admin THEN "admin" ELSE "user"
                n == Strip(name)
            IN  /\ authed' = [authed EXCEPT ![s] = TRUE]
                /\ username' = [username EXCEPT ![s] = n]
                /\ role' = [role EXCEPT ![s] = r]
                \* INSERT OR IGNORE INTO users; UPDATE users SET role
                /\ users' = {x \in users : x.username # n}
                                \cup {[username |-> n, role |-> r]}
                \* st.rerun(): the script now passes require_auth and
                \* draws the sidebar
                /\ usage_daily' = usage_get_or_create(usage_daily, today, n)
                /\ msg' = [msg EXCEPT ![s] = "none"]
       ELSE /\ msg' = [msg EXCEPT ![s] = "bad_password"]
            /\ UNCHANGED <<sessVars, users, usage_daily>>
    /\ UNCHANGED <<env, pureVars, pc, loc, today, dataVars>>

logout(s) ==
    /\ Ready(s)
    /\ authed' = [authed EXCEPT ![s] = FALSE]
    /\ username' = [username EXCEPT ![s] = <<>>]
    /\ role' = [role EXCEPT ![s] = "none"]
    /\ usage_daily' = sidebar(usage_daily, s)
    /\ msg' = [msg EXCEPT ![s] = "none"]
    /\ UNCHANGED <<env, pureVars, pc, loc, today, users, dataVars>>

\* a rerun with no button pressed (the page is opened or redrawn)
rerun(s) ==
    /\ Ready(s)
    /\ usage_daily' = sidebar(usage_daily, s)
    /\ msg' = [msg EXCEPT ![s] = "none"]
    /\ UNCHANGED <<env, pureVars, sessVars, pc, loc, today, users, dataVars>>

----------------------------------------------------------------------------
(* The add-policy flow (tab 1): one script run, a step per database        *)
(* transaction and per external call.  Other sessions run between steps.   *)

\* a plausible slip: > where the code has >=
enforce_limits_gt(kind, r) ==
    \/ kind = "image" /\ r.image_calls > DAILY_IMAGE_LIMIT_PER_USER
    \/ kind = "text" /\ r.text_calls > DAILY_TEXT_LIMIT_PER_USER

\* enforce_limits: TRUE when it refuses (st.error, st.stop), given the
\* counters r that usage_get_or_create returned
enforce_limits(kind, r) ==
    \/ kind = "image" /\ r.image_calls >= DAILY_IMAGE_LIMIT_PER_USER
    \/ kind = "text" /\ r.text_calls >= DAILY_TEXT_LIMIT_PER_USER

\* the button is pressed with the form f filled in: the sidebar, then
\* ai_parse_policy_image up to enforce_limits("image")
ai_parse_enforce(s, f) ==
    /\ Ready(s)
    /\ LET tbl == usage_get_or_create(sidebar(usage_daily, s),
                                      today, username[s])
           r   == usage_read(tbl, today, username[s])
       IN  /\ usage_daily' = tbl
           /\ IF enforce_limits("image", r)
              THEN EndRun(s, "limit_image")
              ELSE /\ pc' = [pc EXCEPT ![s] = "image_call"]
                   /\ loc' = [loc EXCEPT ![s] =
                                 [NoLoc EXCEPT !.u = r, !.form = f]]
                   /\ msg' = [msg EXCEPT ![s] = "none"]
    /\ UNCHANGED <<env, pureVars, sessVars, today, users, dataVars>>

\* a plausible slip: usage_inc ahead of the request, so that a failed call
\* is counted too
ai_parse_call_counts_failure(s, out) ==
    /\ pc[s] = "image_call"
    /\ IF out.kind = "error"
       THEN /\ EndRun(s, "ai_image_failed")
            /\ usage_daily' = usage_inc(usage_daily, today, username[s], 1, 0)
       ELSE /\ pc' = [pc EXCEPT ![s] = "image_inc"]
            /\ loc' = [loc EXCEPT ![s].struct = out]
            /\ UNCHANGED <<msg, usage_daily>>
    /\ UNCHANGED <<env, pureVars, sessVars, today, users, dataVars>>

\* client.responses.create with the image, and json.loads of its text:
\* out is "error" (the request or the parse raised) or the parsed JSON
ai_parse_call(s, out) ==
    /\ pc[s] = "image_call"
    /\ IF out.kind = "error"
       THEN EndRun(s, "ai_image_failed")
       ELSE /\ pc' = [pc EXCEPT ![s] = "image_inc"]
            /\ loc' = [loc EXCEPT ![s].struct = out]
            /\ UNCHANGED msg
    /\ UNCHANGED <<env, pureVars, sessVars, today, users, usage_daily, dataVars>>

\* usage_inc(USERNAME, image_inc=1)
ai_parse_usage_inc(s) ==
    /\ pc[s] = "image_inc"
    /\ usage_daily' = usage_inc(usage_daily, today, username[s], 1, 0)
    /\ pc' = [pc EXCEPT ![s] = "resolve"]
    /\ UNCHANGED <<env, pureVars, sessVars, loc, msg, today, users, dataVars>>

\* final_name = (customer_name or "").strip() or insured_name
final_name_of(f, doc) ==
    IF Strip(OrEmpty(f.customer_name)) # <<>>
    THEN Strip(OrEmpty(f.customer_name))
    ELSE Strip(OrEmpty(doc.insured_name))

\* lines 633-645 and the SELECT of upsert_customer
resolve_name(s) ==
    /\ pc[s] = "resolve"
    /\ LET doc == loc[s].struct
           f   == loc[s].form
       IN  IF doc.kind # "dict" \/ doc.insured_name = NonStr
           THEN \* struct.get or .strip() raises AttributeError
                EndRun(s, "exception")
           ELSE IF final_name_of(f, doc) = <<>>
           THEN EndRun(s, "no_name")
           ELSE /\ pc' = [pc EXCEPT ![s] = "upsert_write"]
                /\ loc' = [loc EXCEPT
                             ![s].final_name = final_name_of(f, doc),
                             ![s].found = upsert_select(customers,
                                            final_name_of(f, doc),
                                            Strip(f.customer_idno))]
                /\ UNCHANGED msg
    /\ UNCHANGED <<env, pureVars, sessVars, today, users, usage_daily, dataVars>>

\* the UPDATE or INSERT of upsert_customer and its commit
upsert_commit(s) ==
    /\ pc[s] = "upsert_write"
    /\ loc[s].found # 0 \/ seq.customers < MaxCustomers
    /\ LET f == loc[s].form
           c == [name |-> loc[s].final_name,
                 id_no |-> Strip(f.customer_idno),
                 birthday |-> <<>>,
                 phone |-> Strip(f.customer_phone),
                 email |-> <<>>,
                 address |-> Strip(f.customer_address),
                 notes |-> Strip(f.customer_notes)]
       IN  /\ customers' = upsert_write(customers, seq.customers,
                                        loc[s].found, c)
           /\ seq' = [seq EXCEPT !.customers =
                          upsert_last(seq.customers, loc[s].found)]
           /\ IF f.do_health
              THEN /\ pc' = [pc EXCEPT ![s] = "text_enforce"]
                   /\ loc' = [loc EXCEPT ![s].cid =
                                 upsert_cid(seq.customers, loc[s].found)]
                   /\ UNCHANGED msg
              ELSE IF loc[s].struct.policy_groups = <<>>
              THEN EndRun(s, "done")
              ELSE /\ pc' = [pc EXCEPT ![s] = "insert_policy"]
                   /\ loc' = [loc EXCEPT
                                ![s].cid = upsert_cid(seq.customers,
                                                      loc[s].found),
                                ![s].gi = 1]
                   /\ UNCHANGED msg
    /\ UNCHANGED <<env, pureVars, sessVars, today, users, usage_daily,
                   policies, policy_items>>

\* ai_health_check up to enforce_limits("text")
health_enforce(s) ==
    /\ pc[s] = "text_enforce"
    /\ LET tbl == usage_get_or_create(usage_daily, today, username[s])
           r   == usage_read(tbl, today, username[s])
       IN  /\ usage_daily' = tbl
           /\ IF enforce_limits("text", r)
              THEN EndRun(s, "limit_text")
              ELSE /\ pc' = [pc EXCEPT ![s] = "text_call"]
                   /\ loc' = [loc EXCEPT ![s].u = r]
                   /\ UNCHANGED msg
    /\ UNCHANGED <<env, pureVars, sessVars, today, users, dataVars>>

\* client.responses.create for the summary: out is "error" or the text
health_call(s, out) ==
    /\ pc[s] = "text_call"
    /\ IF out.kind = "error"
       THEN EndRun(s, "health_failed")
       ELSE /\ pc' = [pc EXCEPT ![s] = "text_inc"]
            /\ loc' = [loc EXCEPT ![s].report_md = Strip(OrEmpty(out.text))]
            /\ UNCHANGED msg
    /\ UNCHANGED <<env, pureVars, sessVars, today, users, usage_daily, dataVars>>

\* usage_inc(USERNAME, text_inc=1), then on to the groups
health_usage_inc(s) ==
    /\ pc[s] = "text_inc"
    /\ usage_daily' = usage_inc(usage_daily, today, username[s], 0, 1)
    /\ IF loc[s].struct.policy_groups = <<>>
       THEN EndRun(s, "done")
       ELSE /\ pc' = [pc EXCEPT ![s] = "insert_policy"]
            /\ loc' = [loc EXCEPT ![s].gi = 1]
            /\ UNCHANGED msg
    /\ UNCHANGED <<env, pureVars, sessVars, today, users, dataVars>>

\* insert_policy for group gi: one INSERT, committed.  The foreign key is
\* enforced: with the customer row gone the INSERT raises IntegrityError.
insert_policy(s) ==
    /\ pc[s] = "insert_policy"
    /\ LET g == loc[s].struct.policy_groups[loc[s].gi]
       IN  IF loc[s].cid \notin Ids(customers)
           THEN /\ EndRun(s, "exception")
                /\ UNCHANGED <<policies, seq>>
           ELSE /\ seq.policies < MaxPolicies
                /\ policies' = policies \cup
                     {[id |-> seq.policies + 1,
                       customer_id |-> loc[s].cid,
                       policy_group_name |-> Strip(OrEmpty(g.policy_group_name)),
                       total_premium_year |->
                           IntOf(normalize_int(g.total_premium)),
                       health_report |-> loc[s].report_md,
                       created_by |-> username[s]]}
                /\ seq' = [seq EXCEPT !.policies = @ + 1]
                /\ pc' = [pc EXCEPT ![s] = "insert_items"]
                /\ loc' = [loc EXCEPT ![s].pid = seq.policies + 1]
                /\ UNCHANGED msg
    /\ UNCHANGED <<env, pureVars, sessVars, today, users, usage_daily,
                   customers, policy_items>>

\* a plausible slip: a commit after every INSERT of the loop, so that the
\* rows before the item that raises stay
insert_policy_items_commit_each(s) ==
    /\ pc[s] = "insert_items"
    /\ LET items == loc[s].struct.policy_groups[loc[s].gi].items
           bad   == {k \in 1..Len(items) : item_raises(items[k])}
           n     == IF bad = {} THEN Len(items) ELSE Min(bad) - 1
       IN  IF items # <<>> /\ loc[s].pid \notin Ids(policies)
           THEN /\ EndRun(s, "exception")
                /\ UNCHANGED <<policy_items, seq>>
           ELSE /\ seq.policy_items + n <= MaxItems
                /\ policy_items' = policy_items \cup
                     item_rows(seq.policy_items, loc[s].pid,
                               SubSeq(items, 1, n))
                /\ seq' = [seq EXCEPT !.policy_items = @ + n]
                /\ IF bad # {}
                   THEN EndRun(s, "exception")
                   ELSE IF loc[s].gi + 1 > Len(loc[s].struct.policy_groups)
                   THEN EndRun(s, "done")
                   ELSE /\ pc' = [pc EXCEPT ![s] = "insert_policy"]
                        /\ loc' = [loc EXCEPT ![s].gi = @ + 1]
                        /\ UNCHANGED msg
    /\ UNCHANGED <<env, pureVars, sessVars, today, users, usage_daily,
                   customers, policies>>

\* insert_policy_items for group gi: every INSERT of the loop in one
\* transaction, committed at the end; an exception in the loop leaves
\* nothing of it
insert_policy_items(s) ==
    /\ pc[s] = "insert_items"
    /\ LET items == loc[s].struct.policy_groups[loc[s].gi].items
       IN  IF (\E k \in 1..Len(items) : item_raises(items[k]))
              \/ (items # <<>> /\ loc[s].pid \notin Ids(policies))
           THEN /\ EndRun(s, "exception")
                /\ UNCHANGED <<policy_items, seq>>
           ELSE /\ seq.policy_items + Len(items) <= MaxItems
                /\ policy_items' = policy_items \cup
                     item_rows(seq.policy_items, loc[s].pid, items)
                /\ seq' = [seq EXCEPT !.policy_items = @ + Len(items)]
                /\ IF loc[s].gi + 1 > Len(loc[s].struct.policy_groups)
                   THEN EndRun(s, "done")
                   ELSE /\ pc' = [pc EXCEPT ![s] = "insert_policy"]
                        /\ loc' = [loc EXCEPT ![s].gi = @ + 1]
                        /\ UNCHANGED msg
    /\ UNCHANGED <<env, pureVars, sessVars, today, users, usage_daily,
                   customers, policies>>

----------------------------------------------------------------------------
(* The handlers of one step (tabs 2 and 6).  Each is a script run: the     *)
(* sidebar, the statement and its commit, then st.rerun(), which draws the *)
(* sidebar again.  The row acted on is the one the search box and the      *)
(* select boxes resolve to, read before the statement runs; the model lets *)
(* it be any id the table has given out (an UPDATE or DELETE of an id that *)
(* is gone changes no row).                                                *)

\* "update customer": UPDATE customers SET name, id_no, phone, email,
\* address, notes WHERE id=?  (birthday is not on the form)
update_customer(s, id, c) ==
    /\ Ready(s)
    /\ id \in 1..seq.customers
    /\ customers' = {IF r.id = id
                     THEN [r EXCEPT !.name = Strip(c.name),
                                    !.id_no = Strip(c.id_no),
                                    !.phone = Strip(c.phone),
                                    !.email = Strip(c.email),
                                    !.address = Strip(c.address),
                                    !.notes = Strip(c.notes)]
                     ELSE r : r \in customers}
    /\ usage_daily' = sidebar(usage_daily, s)
    /\ msg' = [msg EXCEPT ![s] = "none"]
    /\ UNCHANGED <<env, pureVars, sessVars, pc, loc, today, users,
                   policies, policy_items, seq>>

\* "delete this policy": DELETE FROM policies WHERE id=?
delete_policy(s, id) ==
    /\ Ready(s)
    /\ id \in 1..seq.policies
    /\ policies' = {r \in policies : r.id # id}
    /\ policy_items' = cascade(policy_items, "policy_id",
                               {id} \cap Ids(policies))
    /\ usage_daily' = sidebar(usage_daily, s)
    /\ msg' = [msg EXCEPT ![s] = "none"]
    /\ UNCHANGED <<env, pureVars, sessVars, pc, loc, today, users, customers, seq>>

\* a plausible slip: the delete-customer button drawn for every role
delete_customer_any_role(s, id) ==
    /\ Ready(s)
    /\ id \in 1..seq.customers
    /\ LET gone  == {id} \cap Ids(customers)
           pgone == {r.id : r \in {x \in policies : x.customer_id \in gone}}
       IN  /\ customers' = {r \in customers : r.id # id}
           /\ policies' = cascade(policies, "customer_id", gone)
           /\ policy_items' = cascade(policy_items, "policy_id", pgone)
    /\ usage_daily' = sidebar(usage_daily, s)
    /\ msg' = [msg EXCEPT ![s] = "none"]
    /\ UNCHANGED <<env, pureVars, sessVars, pc, loc, today, users, seq>>

\* "delete this customer", drawn only when ROLE == "admin":
\* DELETE FROM customers WHERE id=?
delete_customer(s, id) ==
    /\ Ready(s)
    /\ role[s] = "admin"
    /\ id \in 1..seq.customers
    /\ LET gone  == {id} \cap Ids(customers)
           pgone == {r.id : r \in {x \in policies : x.customer_id \in gone}}
       IN  /\ customers' = {r \in customers : r.id # id}
           /\ policies' = cascade(policies, "customer_id", gone)
           /\ policy_items' = cascade(policy_items, "policy_id", pgone)
    /\ usage_daily' = sidebar(usage_daily, s)
    /\ msg' = [msg EXCEPT ![s] = "none"]
    /\ UNCHANGED <<env, pureVars, sessVars, pc, loc, today, users, seq>>

\* "clear today's usage (all users)", drawn only when ROLE == "admin":
\* DELETE FROM usage_daily WHERE ymd=?; the rerun's sidebar then creates
\* the admin's own row again
reset_usage(s) ==
    /\ Ready(s)
    /\ role[s] = "admin"
    /\ usage_daily' = sidebar(usage_delete_day(sidebar(usage_daily, s),
                                               today), s)
    /\ msg' = [msg EXCEPT ![s] = "none"]
    /\ UNCHANGED <<env, pureVars, sessVars, pc, loc, today, users, dataVars>>

\* "clear all data", drawn only when ROLE == "admin": DELETE FROM
\* policy_items; DELETE FROM policies; DELETE FROM customers.  AUTOINCREMENT
\* keeps the counters.
wipe_all(s) ==
    /\ Ready(s)
    /\ role[s] = "admin"
    /\ customers' = {}
    /\ policies' = {}
    /\ policy_items' = {}
    /\ usage_daily' = sidebar(usage_daily, s)
    /\ msg' = [msg EXCEPT ![s] = "none"]
    /\ UNCHANGED <<env, pureVars, sessVars, pc, loc, today, users, seq>>

----------------------------------------------------------------------------
(* The import (tab 4).  The button's script run reads the uploaded file and *)
(* calls import_customers_df, whose loop commits a customer per row; other  *)
(* sessions run between the rows.                                           *)

\* "start import" with the file df and every field mapped
import_begin(s, df) ==
    /\ Ready(s)
    /\ usage_daily' = sidebar(usage_daily, s)
    /\ IF df = <<>>
       THEN EndRun(s, "imported")
       ELSE /\ pc' = [pc EXCEPT ![s] = "import"]
            /\ loc' = [loc EXCEPT ![s] = [NoLoc EXCEPT !.rows = df]]
            /\ msg' = [msg EXCEPT ![s] = "none"]
    /\ UNCHANGED <<env, pureVars, sessVars, today, users, dataVars>>

\* one pass of the loop of import_customers_df
import_row(s) ==
    /\ pc[s] = "import"
    /\ LET acc == import_row_of([tbl |-> customers, last |-> seq.customers,
                                 count |-> 0], Head(loc[s].rows))
       IN  /\ acc.last <= MaxCustomers
           /\ customers' = acc.tbl
           /\ seq' = [seq EXCEPT !.customers = acc.last]
    /\ IF Tail(loc[s].rows) = <<>>
       THEN EndRun(s, "imported")
       ELSE /\ loc' = [loc EXCEPT ![s].rows = Tail(@)]
            /\ UNCHANGED <<pc, msg>>
    /\ UNCHANGED <<env, pureVars, sessVars, today, users, usage_daily,
                   policies, policy_items>>

----------------------------------------------------------------------------
(* Inputs                                                                  *)

Err == [kind |-> "error"]
Doc(name, groups) ==
    [kind |-> "dict", insured_name |-> name, policy_groups |-> groups]
Group(name, total, items) ==
    [policy_group_name |-> name, total_premium |-> total, items |-> items]
Item(name, premium) == [product_name |-> name, premium |-> premium]
Form(name, idno, phone, health) ==
    [customer_name |-> name, customer_idno |-> idno,
     customer_phone |-> phone, customer_address |-> <<>>,
     customer_notes |-> <<>>, do_health |-> health]
Text(t) == [kind |-> "text", text |-> t]

----------------------------------------------------------------------------
(* SpecUsage: the usage counters.  Session s1 is the user "a" and reads     *)
(* sheets; session s2 is the admin "b", who opens the page and resets the   *)
(* day's usage.  The sheets read carry no policy group, so a run ends       *)
(* after the customer and the summary.                                      *)

UsageLogins ==
    { <<"s1", <<"a">>, "shared-pw">>,
      <<"s2", <<"b">>, "admin-secret">> }
UsageClients == {"s1"}
UsageForms ==
    { Form(<<"W">>, <<>>, <<>>, TRUE), Form(<<"W">>, <<>>, <<>>, FALSE) }
UsageDocs == { Doc(None, <<>>) }
UsageReports == { Text(<<"r">>) }

NextUsage ==
    \/ Tick
    \/ \E l \in UsageLogins : login_ui(l[1], l[2], l[3])
    \/ \E s \in Sessions : rerun(s)
    \/ \E s \in Sessions : reset_usage(s)
    \/ \E s \in UsageClients, f \in UsageForms : ai_parse_enforce(s, f)
    \/ \E s \in UsageClients, out \in UsageDocs \cup {Err} :
          ai_parse_call(s, out)
    \/ \E s \in UsageClients : ai_parse_usage_inc(s)
    \/ \E s \in UsageClients : resolve_name(s)
    \/ \E s \in UsageClients : upsert_commit(s)
    \/ \E s \in UsageClients : health_enforce(s)
    \/ \E s \in UsageClients, out \in UsageReports \cup {Err} :
          health_call(s, out)
    \/ \E s \in UsageClients : health_usage_inc(s)

SpecUsage == Init /\ [][NextUsage]_vars

\* today's counters of the user of session s
Counters(tbl, s) == usage_read(tbl, today, username[s])

\* C1: for one session and one day, an image-extraction attempt made while
\* today's image counter of the user is at or above the ceiling ends the
\* run with the limit message before the model is called, changes no usage
\* row and writes no customer, policy or item; and a model call is under
\* way only when the counters the check read were under the ceiling.
C1_NoCallAtCeiling ==
    \A s \in Sessions :
        pc[s] = "image_call" =>
            loc[s].u.image_calls < DAILY_IMAGE_LIMIT_PER_USER
C1_AttemptAtCeiling(s) ==
    /\ \E f \in UsageForms : ai_parse_enforce(s, f)
    /\ Counters(usage_daily, s).image_calls >= DAILY_IMAGE_LIMIT_PER_USER
C1_RefusedAtCeiling ==
    /\ []C1_NoCallAtCeiling
    /\ [][\A s \in Sessions :
            C1_AttemptAtCeiling(s) =>
                /\ pc'[s] = "idle"
                /\ msg'[s] = "limit_image"
                /\ usage_daily' = usage_daily
                /\ dataVars' = dataVars]_vars

\* a user has made as many successful extractions as the ceiling allows
\* and the next attempt was refused
C1_Witness ==
    \E s \in Sessions :
        /\ authed[s]
        /\ msg[s] = "limit_image"
        /\ pc[s] = "idle"
        /\ Counters(usage_daily, s).image_calls = DAILY_IMAGE_LIMIT_PER_USER

\* C2: when the increment after a successful call has run, the user's
\* counter of that kind for the current day is one more than the value the
\* ceiling check read, and the counter of the other kind is as it was;
\* also when the row was removed or the day changed in between.
C2_ImageInc(s) ==
    (pc[s] = "image_inc" /\ pc'[s] # "image_inc") =>
        /\ usage_read(usage_daily', today', username[s]).image_calls
               = loc[s].u.image_calls + 1
        /\ usage_read(usage_daily', today', username[s]).text_calls
               = Counters(usage_daily, s).text_calls
C2_TextInc(s) ==
    (pc[s] = "text_inc" /\ pc'[s] # "text_inc") =>
        /\ usage_read(usage_daily', today', username[s]).text_calls
               = loc[s].u.text_calls + 1
        /\ usage_read(usage_daily', today', username[s]).image_calls
               = Counters(usage_daily, s).image_calls
C2_CounterPlusOne ==
    [][\A s \in Sessions : C2_ImageInc(s) /\ C2_TextInc(s)]_vars

\* C3: a usage row is never lost and its counters never go down from one
\* state to the next, except in the step where a session of role admin
\* resets today's usage, and then only for rows of today.
C3_Kept(r) ==
    \E q \in usage_daily' :
        /\ q.ymd = r.ymd
        /\ q.username = r.username
        /\ q.image_calls >= r.image_calls
        /\ q.text_calls >= r.text_calls
C3_AdminReset ==
    \E s \in Sessions : role[s] = "admin" /\ reset_usage(s)
C3_MonotoneUsage ==
    [][\A r \in usage_daily :
          C3_Kept(r) \/ (r.ymd = today /\ C3_AdminReset)]_vars

\* on day 2 an admin reset has removed the row of a user whose run is past
\* its increment (the check read 1, so the row was there), and the user's
\* row of day 1 still holds its count
C3_Witness ==
    \E s \in Sessions :
        /\ today = 2
        /\ pc[s] = "resolve"
        /\ loc[s].u.image_calls = 1
        /\ UsageRow(usage_daily, 2, username[s]) = {}
        /\ \E r \in UsageRow(usage_daily, 1, username[s]) :
               r.image_calls = 1

----------------------------------------------------------------------------
(* SpecClassify: classify_item_category applied to a product name.  The    *)
(* names are None and the concatenations of at most MaxParts parts, a part *)
(* being a keyword of one of the groups, a space, an ideographic space or  *)
(* a character no keyword holds.                                           *)

appVars == <<env, sessVars, pc, loc, msg, today, users, usage_daily, dataVars>>

MaxParts == 2

ClassifyParts ==
    Elems(KwLife) \cup Elems(KwMedical) \cup Elems(KwAccident)
        \cup Elems(KwCancer) \cup Elems(KwCritical)
        \cup Elems(KwLongTermCare) \cup Elems(KwWaiver)
        \cup {<<" ">>, <<"U+3000">>, <<"X">>}

RECURSIVE Joined(_, _)
Joined(parts, n) ==
    IF n = 0 THEN {<<>>}
    ELSE LET shorter == Joined(parts, n - 1)
         IN  shorter \cup {p \o f : p \in shorter, f \in parts}

ClassifyNames == Joined(ClassifyParts, MaxParts) \cup {None}

InitClassify ==
    /\ arg \in ClassifyNames
    /\ ret = None
    /\ env = DeployedEnv
    /\ InitApp

\* item["category"] = classify_item_category(product_name)
classify_call ==
    /\ ret = None
    /\ ret' = classify_item_category(arg)
    /\ UNCHANGED <<arg, appVars>>

NextClassify == classify_call

SpecClassify == InitClassify /\ [][NextClassify]_vars

\* C4: classify_item_category returns the label of the first group, in the
\* order life, medical, accident, cancer, critical illness, long-term care,
\* premium waiver, one of whose keywords occurs in the trimmed name, and
\* "other" when the name is empty, blank or matches no group; a name with a
\* medical keyword and no life keyword yields "medical"; and every group's
\* label is returned for one of that group's own keywords.
C4_Groups ==
    << [kws |-> KwLife, lbl |-> LblLife],
       [kws |-> KwMedical, lbl |-> LblMedical],
       [kws |-> KwAccident, lbl |-> LblAccident],
       [kws |-> KwCancer, lbl |-> LblCancer],
       [kws |-> KwCritical, lbl |-> LblCritical],
       [kws |-> KwLongTermCare, lbl |-> LblLongTermCare],
       [kws |-> KwWaiver, lbl |-> LblWaiver] >>
C4_Hits(t) ==
    {i \in 1..Len(C4_Groups) :
        \E k \in Elems(C4_Groups[i].kws) : IsSubstr(k, t)}
C4_FirstMatch(t) ==
    IF C4_Hits(t) = {} THEN LblOther ELSE C4_Groups[Min(C4_Hits(t))].lbl
C4_FirstMatchWins ==
    /\ ret # None =>
          /\ ret = C4_FirstMatch(Strip(OrEmpty(arg)))
          /\ Strip(OrEmpty(arg)) = <<>> => ret = LblOther
          /\ (2 \in C4_Hits(OrEmpty(arg)) /\ 1 \notin C4_Hits(OrEmpty(arg)))
                => ret = LblMedical
    /\ \A i \in 1..Len(C4_Groups) :
          \E k \in Elems(C4_Groups[i].kws) :
              classify_item_category(k) = C4_Groups[i].lbl

\* a name holding a medical and an accident keyword, and no life keyword,
\* has been classified
C4_Witness ==
    /\ arg # None
    /\ AnyIn(KwMedical, arg)
    /\ AnyIn(KwAccident, arg)
    /\ ~AnyIn(KwLife, arg)
    /\ ret = LblMedical

----------------------------------------------------------------------------
(* SpecNormalize: normalize_int applied to a premium value.  The values    *)
(* are None, every text of at most MaxTextLen characters over              *)
(* NormalizeChars, and some longer texts.                                  *)

MaxTextLen == 3

NormalizeChars ==
    { <<"0">>, <<"1">>, <<"7">>, <<",">>, <<"U+FF0C">>, <<"$">>,
      <<"U+5143">>, <<" ">>, <<"-">>, <<".">>, <<"e">>, <<"n">>, <<"a">> }

NormalizePicked ==
    { <<"$", "1", "0", ",", "1", "2", "9", " ", "U+5143">>,   \* "$10,129 元"
      <<" ", "1", "2", ",", "5", "0", "0", " ">>,
      <<"N", "a", "N">>,
      <<"-", "5", "0", "0">>,
      <<"1", "2", ".", "7", "5">>,
      \* 2^53 - 1, 2^53, 2^53 + 1
      <<"9","0","0","7","1","9","9","2","5","4","7","4","0","9","9","1">>,
      Two53,
      <<"9",",","0","0","7",",","1","9","9",",","2","5","4",",",
        "7","4","0",",","9","9","3">> }

NormalizeValues ==
    Joined(NormalizeChars, MaxTextLen) \cup NormalizePicked \cup {None}

NoRet == [kind |-> "none"]

InitNormalize ==
    /\ arg \in NormalizeValues
    /\ ret = NoRet
    /\ env = DeployedEnv
    /\ InitApp

\* premium = normalize_int(it.get("premium"))
normalize_call ==
    /\ ret = NoRet
    /\ ret' = normalize_int(arg)
    /\ UNCHANGED <<arg, appVars>>

NextNormalize == normalize_call

SpecNormalize == InitNormalize /\ [][NextNormalize]_vars

\* C6: normalize_int maps a decimal integer decorated with thousands
\* separators (ASCII or full-width comma), '$', the yuan sign and spaces to
\* that integer; maps None, the empty text, "nan" and every text that does
\* not parse as a number after the stripping to 0; and never raises.
C6_Decoration == {",", "U+FF0C", "$", "U+5143", " "}
C6_Digits(x) == SelectSeq(x, IsDigit)
C6_IsDecoratedInt(x) ==
    /\ x # None
    /\ C6_Digits(x) # <<>>
    /\ \A i \in 1..Len(x) : IsDigit(x[i]) \/ x[i] \in C6_Decoration
C6_Stripped(x) == SelectSeq(Strip(x), LAMBDA c : c \notin C6_Decoration)
C6_Unparseable(x) ==
    /\ x # None
    /\ C6_Stripped(x) # <<>>
    /\ IsRaised(ParseFloat(C6_Stripped(x)))
C6_NormalizeInt ==
    ret # NoRet =>
        /\ ret.kind = "int"
        /\ C6_IsDecoratedInt(arg) =>
               ret = PyInt(FALSE, Canon(C6_Digits(arg)))
        /\ (arg = None \/ arg = <<>> \/ arg = <<"n", "a", "n">>) =>
               ret = PyZero
        /\ C6_Unparseable(arg) => ret = PyZero

----------------------------------------------------------------------------
(* SpecStore: customers, policies and items.  Both sessions are logged in  *)
(* (s1 the user "a", s2 the admin "b"); s1 reads sheets without a summary  *)
(* while s2 edits, deletes, exports and imports.                           *)

StoreClients == {"s1"}
StoreAdmins == {"s2"}

\* W, Y: customer names; A1: an ID number; 09: a phone number
StoreForms ==
    { Form(<<>>, <<>>, <<>>, FALSE),
      Form(<<"W">>, <<"A", "1">>, <<"0", "9">>, FALSE) }

StoreDocs ==
    { Doc(<<" ", "W">>,
          << Group(<<"g">>,
                   <<"$", "1", "0", ",", "1", "2", "9", " ", "U+5143">>,
                   << Item(<<"U+4F4F", "U+9662", "U+50B7", "U+5BB3">>,
                           <<"-", "5", "0", "0">>),
                      Item(None, None) >>) >>),
      Doc(None,
          << Group(None, <<"7">>, << Item(NonStr, <<"1">>) >>) >>) }

StoreEdits ==
    { [name |-> <<"Y">>, id_no |-> <<>>, phone |-> <<>>, email |-> <<>>,
       address |-> <<>>, notes |-> <<>>] }

InitStore ==
    /\ arg = None
    /\ ret = None
    /\ env = DeployedEnv
    /\ authed = [s \in Sessions |-> TRUE]
    /\ username = [s \in Sessions |-> IF s = "s1" THEN <<"a">> ELSE <<"b">>]
    /\ role = [s \in Sessions |-> IF s = "s1" THEN "user" ELSE "admin"]
    /\ pc = [s \in Sessions |-> "idle"]
    /\ loc = [s \in Sessions |-> NoLoc]
    /\ msg = [s \in Sessions |-> "none"]
    /\ today = 1
    /\ users = {[username |-> <<"a">>, role |-> "user"],
                [username |-> <<"b">>, role |-> "admin"]}
    /\ usage_daily = usage_get_or_create(
                         usage_get_or_create({}, 1, <<"a">>), 1, <<"b">>)
    /\ customers = {}
    /\ policies = {}
    /\ policy_items = {}
    /\ seq = [customers |-> 0, policies |-> 0, policy_items |-> 0]

NextStore ==
    \/ \E s \in StoreClients, f \in StoreForms : ai_parse_enforce(s, f)
    \/ \E s \in StoreClients, out \in StoreDocs : ai_parse_call(s, out)
    \/ \E s \in StoreClients : ai_parse_usage_inc(s)
    \/ \E s \in StoreClients : resolve_name(s)
    \/ \E s \in StoreClients : upsert_commit(s)
    \/ \E s \in StoreClients : insert_policy(s)
    \/ \E s \in StoreClients : insert_policy_items(s)
    \/ \E s \in StoreAdmins, id \in 1..MaxCustomers, c \in StoreEdits :
          update_customer(s, id, c)
    \/ \E s \in StoreAdmins, id \in 1..MaxPolicies : delete_policy(s, id)
    \/ \E s \in StoreAdmins, id \in 1..MaxCustomers : delete_customer(s, id)
    \/ \E s \in StoreAdmins : wipe_all(s)
    \/ \E s \in StoreAdmins : import_begin(s, read_csv_of(customers))
    \/ \E s \in StoreAdmins : import_row(s)

SpecStore == InitStore /\ [][NextStore]_vars

\* C5: the category of every stored policy item is one of the eight
\* labels, whatever the sheet's item held (a missing or null product name
\* included).
C5_Labels ==
    {LblLife, LblMedical, LblAccident, LblCancer, LblCritical,
     LblLongTermCare, LblWaiver, LblOther}
C5_CategoryIsLabel == \A i \in policy_items : i.category \in C5_Labels

\* an item with a null product name and an item with a medical name are
\* stored
C5_Witness ==
    /\ \E i \in policy_items : i.product_name = <<>> /\ i.category = LblOther
    /\ \E i \in policy_items : i.category = LblMedical

\* C7: the premium of every stored item and the yearly total of every
\* stored policy is a non-negative integer, whatever the premium text was
\* (a leading minus sign included).
C7_NonNegativePremium ==
    /\ \A i \in policy_items : i.premium >= 0
    /\ \A p \in policies : p.total_premium_year >= 0

\* C8: from any state of the store, upsert_customer called twice with the
\* same name and the same non-empty ID, or twice with the same name and an
\* empty ID, leaves as many customer rows after the second call as after
\* the first, and both calls return the same customer id.
C8_Customers ==
    { [name |-> n, id_no |-> i, birthday |-> <<>>, phone |-> <<"0", "9">>,
       email |-> <<>>, address |-> <<>>, notes |-> <<>>] :
         n \in {<<"W">>, <<"Y">>}, i \in {<<>>, <<"A", "1">>} }
C8_Twice(c) ==
    LET first  == upsert_customer(customers, seq.customers, c)
        second == upsert_customer(first.tbl, first.last, c)
    IN  /\ Cardinality(second.tbl) = Cardinality(first.tbl)
        /\ second.cid = first.cid
C8_UpsertIdempotent == \A c \in C8_Customers : C8_Twice(c)

\* a run's upsert has found the one customer an earlier upsert stored and
\* returned its id
C8_Witness ==
    \E s \in Sessions :
        /\ pc[s] = "insert_policy"
        /\ loc[s].found # 0
        /\ loc[s].cid = loc[s].found
        /\ Cardinality(customers) = 1
        /\ seq.customers = 1

\* C9: every item references a stored policy and every policy a stored
\* customer; a step that removes policies removes exactly their items, a
\* step that removes customers removes exactly their policies and those
\* policies' items, and the other rows are as they were.
C9_Referenced ==
    /\ \A i \in policy_items : i.policy_id \in Ids(policies)
    /\ \A p \in policies : p.customer_id \in Ids(customers)
C9_ExactCascade ==
    LET goneC == Ids(customers) \ Ids(customers')
        goneP == Ids(policies) \ Ids(policies')
    IN  /\ goneC # {} =>
              /\ customers' = {c \in customers : c.id \notin goneC}
              /\ goneP = {p.id : p \in {q \in policies :
                                           q.customer_id \in goneC}}
        /\ goneP # {} =>
              /\ policies' = {p \in policies : p.id \notin goneP}
              /\ policy_items' =
                     {i \in policy_items : i.policy_id \notin goneP}
        /\ goneP = {} => policy_items \subseteq policy_items'
C9_ReferentialIntegrity ==
    /\ []C9_Referenced
    /\ [][C9_ExactCascade]_vars

\* of two customers with a policy and items each, one is gone with its
\* policy and items, and the other's policy and items are stored
C9_Witness ==
    /\ seq.customers = 2 /\ Cardinality(customers) = 1
    /\ seq.policies = 2 /\ Cardinality(policies) = 1
    /\ seq.policy_items = 4 /\ Cardinality(policy_items) = 2

\* C10: exporting the customer table and importing the exported rows, into
\* the same store or into an emptied one, gives a customer table with the
\* same set of (name, ID number, birthday, phone, email, address, notes).
C10_Tuples(tbl) ==
    {[f \in Elems(CustomerFields) |-> r[f]] : r \in tbl}
C10_RoundTrip ==
    LET df == read_csv_of(customers)
    IN  /\ C10_Tuples(import_customers_df(customers, seq.customers, df).tbl)
               = C10_Tuples(customers)
        /\ C10_Tuples(import_customers_df({}, seq.customers, df).tbl)
               = C10_Tuples(customers)

----------------------------------------------------------------------------
(* SpecAuth: the login gate and the roles.  Both sessions start logged     *)
(* out, under any of four deployments, over the database file an earlier   *)
(* run of the user "a" left: one customer with one policy of one item.     *)
(* They log in with any name and password, log out, and press every        *)
(* delete and maintenance button the page draws for them.                  *)

AuthEnvs ==
    { DeployedEnv,
      \* nothing configured
      [ADMIN_PASSWORD |-> "", USER_PASSWORDS |-> {}],
      \* no admin secret
      [ADMIN_PASSWORD |-> "", USER_PASSWORDS |-> {"shared-pw"}],
      \* the admin secret is also one of the shared passwords
      [ADMIN_PASSWORD |-> "shared-pw", USER_PASSWORDS |-> {"shared-pw"}] }

AuthNames == { <<>>, <<" ">>, <<" ", "a">>, <<"b">> }
AuthPasswords == { "", "admin-secret", "shared-pw", "wrong" }

\* what the add-policy flow of "a" wrote for the form name W and a sheet
\* of one group with one item
AuthCustomers ==
    upsert_customer({}, 0, [name |-> <<"W">>, id_no |-> <<>>,
                            birthday |-> <<>>, phone |-> <<>>,
                            email |-> <<>>, address |-> <<>>,
                            notes |-> <<>>]).tbl
AuthPolicies ==
    { [id |-> 1, customer_id |-> 1, policy_group_name |-> <<>>,
       total_premium_year |-> IntOf(normalize_int(<<"7">>)),
       health_report |-> <<>>, created_by |-> <<"a">>] }
AuthItems == item_rows(0, 1, << Item(<<"A">>, <<"1">>) >>)

InitAuth ==
    /\ arg = None
    /\ ret = None
    /\ env \in AuthEnvs
    /\ authed = [s \in Sessions |-> FALSE]
    /\ username = [s \in Sessions |-> <<>>]
    /\ role = [s \in Sessions |-> "none"]
    /\ pc = [s \in Sessions |-> "idle"]
    /\ loc = [s \in Sessions |-> NoLoc]
    /\ msg = [s \in Sessions |-> "none"]
    /\ today = 1
    /\ users = {[username |-> <<"a">>, role |-> "user"]}
    /\ usage_daily = usage_inc(usage_get_or_create({}, 1, <<"a">>),
                               1, <<"a">>, 1, 0)
    /\ customers = AuthCustomers
    /\ policies = AuthPolicies
    /\ policy_items = AuthItems
    /\ seq = [customers |-> 1, policies |-> 1, policy_items |-> 1]

NextAuth ==
    \/ \E s \in Sessions, n \in AuthNames, p \in AuthPasswords :
          login_ui(s, n, p)
    \/ \E s \in Sessions : logout(s)
    \/ \E s \in Sessions : rerun(s)
    \/ \E s \in Sessions, id \in 1..MaxPolicies : delete_policy(s, id)
    \/ \E s \in Sessions, id \in 1..MaxCustomers : delete_customer(s, id)
    \/ \E s \in Sessions : reset_usage(s)
    \/ \E s \in Sessions : wipe_all(s)

SpecAuth == InitAuth /\ [][NextAuth]_vars

\* the steps behind the gate: what a session can do once require_auth lets
\* the script run on
C11_BehindGate(s) ==
    \/ logout(s)
    \/ rerun(s)
    \/ \E id \in 1..MaxPolicies : delete_policy(s, id)
    \/ \E id \in 1..MaxCustomers : delete_customer(s, id)
    \/ reset_usage(s)
    \/ wipe_all(s)
\* the attempt the claim lets in, and the role it gives
C11_AdminMatch(p) == env.ADMIN_PASSWORD # "" /\ p = env.ADMIN_PASSWORD
C11_UserMatch(p) == env.USER_PASSWORDS # {} /\ p \in env.USER_PASSWORDS
C11_Accepted(n, p) ==
    /\ \E k \in 1..Len(n) : n[k] \notin Whitespace
    /\ C11_AdminMatch(p) \/ C11_UserMatch(p)
C11_Gate ==
    \A s \in Sessions :
        ~authed[s] =>
            /\ username[s] = <<>>
            /\ role[s] = "none"
            /\ pc[s] = "idle"
            /\ ~ENABLED C11_BehindGate(s)

\* C11: a login attempt authenticates the session exactly when the name is
\* not blank and the password is the non-empty admin secret (role admin,
\* also when the password is in the shared list too) or is in the
\* non-empty shared list (role user); any other attempt leaves authed,
\* username and role as they were and writes no user row; and a session
\* that is not authenticated can take no step behind the gate.
C11_LoginIff ==
    /\ []C11_Gate
    /\ [][\A s \in Sessions, n \in AuthNames, p \in AuthPasswords :
            login_ui(s, n, p) =>
                IF C11_Accepted(n, p)
                THEN /\ authed'[s]
                     /\ username'[s] = Strip(n)
                     /\ role'[s] = IF C11_AdminMatch(p) THEN "admin"
                                   ELSE "user"
                ELSE /\ ~authed'[s]
                     /\ UNCHANGED <<sessVars, users>>]_vars

\* one session is in as admin with a password that is also in the shared
\* list, while the other was refused for its password and is still out
C11_Witness ==
    /\ env.ADMIN_PASSWORD \in env.USER_PASSWORDS
    /\ \E s \in Sessions : authed[s] /\ role[s] = "admin"
    /\ \E s \in Sessions : ~authed[s] /\ msg[s] = "bad_password"

\* what the three operations leave behind: a customer row is gone (one
\* deleted, or all wiped), or a usage row of today is gone or set back
C12_CustomerGone == Ids(customers) \ Ids(customers') # {}
C12_UsageReset ==
    \E r \in usage_daily : r.ymd = today /\ r \notin usage_daily'
C12_AdminOnly(s) ==
    \/ \E id \in 1..MaxCustomers : delete_customer(s, id)
    \/ wipe_all(s)
    \/ reset_usage(s)

\* C12: a customer is deleted, the data wiped or today's usage reset only
\* by a step of a session whose role is admin: such a step is never one of
\* a session of another role, and no customer row or usage row of today
\* disappears while no admin session is at its page.  (A user session
\* deletes single policies: delete_policy asks for no role.)
C12_DestructiveByAdmin ==
    [][/\ \A s \in Sessions : C12_AdminOnly(s) => role[s] = "admin"
       /\ C12_CustomerGone \/ C12_UsageReset =>
              \E s \in Sessions : Ready(s) /\ role[s] = "admin"]_vars

\* the customer is gone and the usage of "a" was reset, with a user session
\* and an admin session logged in
C12_Witness ==
    /\ customers = {}
    /\ \A r \in UsageRow(usage_daily, today, <<"a">>) : r.image_calls = 0
    /\ \E s \in Sessions : authed[s] /\ role[s] = "user"
    /\ \E s \in Sessions : authed[s] /\ role[s] = "admin"

----------------------------------------------------------------------------
(* SpecFlow: the add-policy flow of one session, the user "a", step by     *)
(* step.  Either model call may fail, the run may be cut short between two *)
(* steps, and the sheet read has no insured name and two policy groups of  *)
(* two items, the last item with a product name that is not a string.      *)

FlowClients == { "s1" }
FlowForms ==
    { Form(<<"W">>, <<>>, <<>>, TRUE), Form(<<"W">>, <<>>, <<>>, FALSE),
      \* the customer name left empty
      Form(<<>>, <<>>, <<>>, FALSE) }
FlowDocs ==
    { Doc(None,
          << Group(<<"g">>, <<"7">>,
                   << Item(<<"A">>, <<"1">>), Item(<<"B">>, <<"2">>) >>),
             Group(<<"h">>, <<"8">>,
                   << Item(<<"C">>, <<"3">>), Item(NonStr, <<"4">>) >>) >>) }
FlowReports == { Text(<<"r">>) }

NextFlow ==
    \/ \E s \in FlowClients, f \in FlowForms : ai_parse_enforce(s, f)
    \/ \E s \in FlowClients, out \in FlowDocs \cup {Err} : ai_parse_call(s, out)
    \/ \E s \in FlowClients : ai_parse_usage_inc(s)
    \/ \E s \in FlowClients : resolve_name(s)
    \/ \E s \in FlowClients : upsert_commit(s)
    \/ \E s \in FlowClients : health_enforce(s)
    \/ \E s \in FlowClients, out \in FlowReports \cup {Err} :
          health_call(s, out)
    \/ \E s \in FlowClients : health_usage_inc(s)
    \/ \E s \in FlowClients : insert_policy(s)
    \/ \E s \in FlowClients : insert_policy_items(s)
    \/ \E s \in FlowClients : abort(s)

SpecFlow == InitStore /\ [][NextFlow]_vars

\* the step on which the add-policy run of session s halts for want of a
\* customer name
C13_HaltsNoName(s) ==
    /\ pc[s] = "resolve"
    /\ resolve_name(s)
    /\ pc'[s] = "idle"
    /\ msg'[s] = "no_name"

\* C13: when neither the form's customer name nor the sheet's insured name
\* is non-blank, the add-policy run halts with nothing committed: on the
\* halt the customers, policies and items are untouched and the user's
\* usage record is the one the run read when it started (loc[s].u, the
\* dict usage_get_or_create returned to enforce_limits).
C13_HaltCommitsNothing ==
    [][\A s \in Sessions :
         C13_HaltsNoName(s) =>
             /\ dataVars' = dataVars
             /\ usage_read(usage_daily', today, username[s]) = loc[s].u]_vars

\* the steps on which a model call of session s fails
C14_ExtractionFails(s) == pc[s] = "image_call" /\ ai_parse_call(s, Err)
C14_SummaryFails(s) == pc[s] = "text_call" /\ health_call(s, Err)
\* a call is under way only in a run that has no answer to it yet
C14_OneAttempt ==
    \A s \in Sessions :
        /\ pc[s] = "image_call" => loc[s].struct = NoDoc
        /\ pc[s] = "text_call" => loc[s].report_md = <<>>

\* C14: when the extraction call or the summary call of an add-policy run
\* fails, the run ends there with the failure message: it has inserted no
\* policy (loc[s].pid is unset) and the failing step inserts no policy and
\* no item; the user's usage record is still the one read before the call
\* (loc[s].u); the call is not made again in that run; and on a failed
\* extraction the run has not reached upsert_customer and the customer
\* table is unchanged.
C14_FailureHalts ==
    /\ []C14_OneAttempt
    /\ [][\A s \in Sessions :
            /\ C14_ExtractionFails(s) =>
                  /\ pc'[s] = "idle" /\ msg'[s] = "ai_image_failed"
                  /\ loc[s].pid = 0 /\ loc[s].cid = 0
                  /\ dataVars' = dataVars
                  /\ usage_read(usage_daily', today, username[s]) = loc[s].u
            /\ C14_SummaryFails(s) =>
                  /\ pc'[s] = "idle" /\ msg'[s] = "health_failed"
                  /\ loc[s].pid = 0
                  /\ policies' = policies /\ policy_items' = policy_items
                  /\ usage_read(usage_daily', today, username[s]) = loc[s].u
       ]_vars

\* the summary call of the first run failed: the customer is stored, no
\* policy is, the image call is counted and the text call is not
C14_Witness ==
    \E s \in Sessions :
        /\ msg[s] = "health_failed"
        /\ customers # {} /\ policies = {}
        /\ usage_read(usage_daily, today, username[s])
               = [image_calls |-> 1, text_calls |-> 0]

\* the page of session s holds a request for a destructive operation and
\* waits for its confirmation.  The app draws no such prompt and keeps no
\* such request in st.session_state: msg never takes this value.
C15_AwaitsConfirmation(s) == msg[s] = "confirm"
\* rows of the store are deleted by the step
C15_RowsDeleted ==
    \/ Ids(customers) \ Ids(customers') # {}
    \/ \E r \in usage_daily : r.ymd = today /\ r \notin usage_daily'

\* C15: a customer deletion, a wipe of all data or a reset of today's
\* usage deletes rows only on a step that follows its request and confirms
\* it, never on the step that requests it; and no step brings a deleted
\* customer, policy or item back (the ids of new rows are above every id
\* given before).
C15_ConfirmedBeforeDeleted ==
    [][/\ C15_RowsDeleted =>
              \E s \in Sessions :
                  role[s] = "admin" /\ C15_AwaitsConfirmation(s)
       /\ \A i \in Ids(customers') \ Ids(customers) : i > seq.customers
       /\ \A i \in Ids(policies') \ Ids(policies) : i > seq.policies
       /\ \A i \in Ids(policy_items') \ Ids(policy_items) :
              i > seq.policy_items]_vars

----------------------------------------------------------------------------
(* SpecRace: two browser sessions logged in under the same username "a",   *)
(* on one day, over an empty store.  Each runs the add-policy flow with    *)
(* the summary, for the same customer name and ID number; the script runs  *)
(* are threads of one server, so their steps interleave.                   *)

RaceForms == { Form(<<"W">>, <<"A", "1">>, <<>>, TRUE) }
RaceDocs == { Doc(None, <<>>) }
RaceReports == { Text(<<"r">>) }

InitRace ==
    /\ arg = None
    /\ ret = None
    /\ env = DeployedEnv
    /\ authed = [s \in Sessions |-> TRUE]
    /\ username = [s \in Sessions |-> <<"a">>]
    /\ role = [s \in Sessions |-> "user"]
    /\ pc = [s \in Sessions |-> "idle"]
    /\ loc = [s \in Sessions |-> NoLoc]
    /\ msg = [s \in Sessions |-> "none"]
    /\ today = 1
    /\ users = {[username |-> <<"a">>, role |-> "user"]}
    /\ usage_daily = usage_get_or_create({}, 1, <<"a">>)
    /\ customers = {}
    /\ policies = {}
    /\ policy_items = {}
    /\ seq = [customers |-> 0, policies |-> 0, policy_items |-> 0]

NextRace ==
    \/ \E s \in Sessions, f \in RaceForms : ai_parse_enforce(s, f)
    \/ \E s \in Sessions, out \in RaceDocs : ai_parse_call(s, out)
    \/ \E s \in Sessions : ai_parse_usage_inc(s)
    \/ \E s \in Sessions : resolve_name(s)
    \/ \E s \in Sessions : upsert_commit(s)
    \/ \E s \in Sessions : health_enforce(s)
    \/ \E s \in Sessions, out \in RaceReports : health_call(s, out)
    \/ \E s \in Sessions : health_usage_inc(s)

SpecRace == InitRace /\ [][NextRace]_vars

\* the external calls of a kind made today for the user of a usage row:
\* those counted in the row, and those answered and not yet counted (the
\* run stands before its usage_inc)
C16_Calls(r, counted, uncounted) ==
    counted + Cardinality({s \in Sessions :
                             username[s] = r.username /\ pc[s] = uncounted})

\* C16: with several sessions under one username, each doing the check of
\* enforce_limits, the model call and usage_inc as separate steps, the
\* calls of a kind made for the user on one day and the stored counter of
\* that kind stay at or under the daily ceiling in every interleaving.
C16_CeilingHolds ==
    \A r \in usage_daily :
        r.ymd = today =>
            /\ r.image_calls <= DAILY_IMAGE_LIMIT_PER_USER
            /\ r.text_calls <= DAILY_TEXT_LIMIT_PER_USER
            /\ C16_Calls(r, r.image_calls, "image_inc")
                   <= DAILY_IMAGE_LIMIT_PER_USER
            /\ C16_Calls(r, r.text_calls, "text_inc")
                   <= DAILY_TEXT_LIMIT_PER_USER

\* C18: from an empty customer table, with upsert_customer the only writer,
\* no two rows of the table carry the same name and the same ID number,
\* in every interleaving of the sessions.
C18_NoDuplicateCustomer ==
    \A x, y \in customers :
        x.name = y.name /\ x.id_no = y.id_no => x.id = y.id

\* the stored items of policy p, and the items the sheet held for its group
C17_Stored(p) == {i \in policy_items : i.policy_id = p.id}
C17_Extracted(p) ==
    UNION {{g.items : g \in {h \in Elems(d.policy_groups) :
                               Strip(OrEmpty(h.policy_group_name))
                                   = p.policy_group_name}} : d \in FlowDocs}
C17_AllOrNone ==
    \A p \in policies :
        \/ C17_Stored(p) = {}
        \/ \E items \in C17_Extracted(p) :
               Cardinality(C17_Stored(p)) = Len(items)

\* C17: a policy group is stored by two commits, the policy row and then
\* its items: no step writes both tables, and a stored policy has either
\* none of the items the sheet held for it or all of them, never a part.
\* (A run cut short between the two commits leaves the policy without
\* items, and one cut short between two groups leaves the first group's
\* policy without the second's.)
C17_TwoCommits ==
    /\ []C17_AllOrNone
    /\ [][policies' # policies => policy_items' = policy_items]_vars

\* after two runs cut short, one between the two commits of the first
\* group and one between the two groups: a policy of group g with no item,
\* a policy of group g with its two items, and no policy of group h
C17_Witness ==
    /\ \A s \in Sessions : pc[s] = "idle"
    /\ \E p \in policies :
           p.policy_group_name = <<"g">> /\ C17_Stored(p) = {}
    /\ \E p \in policies :
           p.policy_group_name = <<"g">> /\ Cardinality(C17_Stored(p)) = 2
    /\ \A p \in policies : p.policy_group_name # <<"h">>

====
